---- MODULE Spec2Model ----
(***************************************************************************)
(* ChunkedVector<T, N> (src/src/vec): a growable array whose elements are  *)
(* stored N to a chunk in an IndexMap (near_sdk::store::index_map), which  *)
(* caches chunks in memory and writes the modified ones to contract        *)
(* storage on flush.  The vector's own code is translated from              *)
(* src/src/vec/mod.rs, iter.rs and impls.rs; the IndexMap, which is not     *)
(* part of the repository, follows the chunk-store contract of spec.md §6.  *)
(*                                                                         *)
(* Encoding.  Option<X> is a sequence: None == <<>>, Some(x) == <<x>>.      *)
(* A chunk [T; N] is a sequence of length N (position p is element p+1).    *)
(* A handle h is the record [len, prefix, cache, medium, reads, writes]:    *)
(* the vector's fields (len, values.prefix, values.cache) together with     *)
(* the storage it runs against and the counters of storage accesses.  An   *)
(* operation is an operator from a handle to [h, ret, abort]: the handle    *)
(* it leaves, the value it returns and whether it panicked                  *)
(* (env::panic_str); on a panic h is the handle as the panic left it.       *)
(***************************************************************************)
EXTENDS Integers, Sequences, FiniteSets, TLC

\* Bounds of the model.
MaxN == 3
MaxLen == 2
MaxMem == 3
MaxVal == 2
MaxExt == 2
MaxIter == 3
MaxSkip == 2
MaxAddr == 20

\* u32::MAX, the largest len and index.  TLC's integers are 32-bit signed, so
\* the model's u32 is narrower than the program's: U32_MAX stands for
\* 2^32 - 1 and every u32 operation is taken modulo U32_MAX + 1.
U32_MAX == 65535

VARIABLES
    N,        \* the chunk capacity (const generic N), fixed per behaviour
    len,      \* ChunkedVector::len
    prefix,   \* ChunkedVector::values.prefix
    cache,    \* ChunkedVector::values.cache: chunk index -> [value, state]
    medium,   \* contract storage: key bytes -> stored chunk
    reads,    \* storage reads of this instance, per chunk index
    writes,   \* storage writes since the previous flush, per chunk index
    counting, \* whether reads and writes are being counted
    cap,      \* the largest len the environment grows the vector to
    mv,       \* the reference Vec of the lockstep tests
    popped,   \* what the pops of the push/pop run returned, in order
    last,     \* the last event: <<"new" | "ok" | "flush" | "forget" | "panic", operation>>,
              \* or <<"iter" | "some" | "none" | "panic", iterator operation>>
    status,   \* "live" | "reloaded" | "aborted" | "dropped" | "iterating"
    it,       \* the iterator borrowing the vector: [kind, range]
    rest,     \* what the reference Vec's iterator has left to yield
    seen,     \* the indices the iterator has yielded
    addr      \* an element index with its chunk index and chunk position

vars == <<N, len, prefix, cache, medium, reads, writes, counting, cap, mv, popped, last, status,
          it, rest, seen, addr>>

----------------------------------------------------------------------------
\* Option and small helpers.

None == <<>>
Some(x) == <<x>>
IsNone(o) == Len(o) = 0
IsSome(o) == Len(o) = 1
Unwrap(o) == o[1]

Zero == 0
Values == 1 .. MaxVal
Idx == 0 .. cap
Prefix == <<118>>

EmptyFn == [k \in {} |-> 0]
Put(f, k, v) == [x \in DOMAIN f \cup {k} |-> IF x = k THEN v ELSE f[x]]
Bump(f, k) == Put(f, k, (IF k \in DOMAIN f THEN f[k] ELSE 0) + 1)
CountAt(f, k) == IF k \in DOMAIN f THEN f[k] ELSE 0

R(h, ret, abort) == [h |-> h, ret |-> ret, abort |-> abort]

----------------------------------------------------------------------------
\* Chunk addressing.

\* Faulty variant: the quotient is cast to a single byte.
chunk_index_u8(index) == (index \div N) % 256

chunk_index(index) == (index \div N) % (U32_MAX + 1)
chunk_pos(index) == index % N

ZeroedChunk == [p \in 1 .. N |-> Zero]

----------------------------------------------------------------------------
\* Borsh: u32 as four little-endian bytes, a byte slice as its u32 length
\* followed by its bytes.

U32ToLe(n) == << n % 256, (n \div 256) % 256, (n \div 65536) % 256, (n \div 16777216) % 256 >>
LeToU32(b) == b[1] + 256 * b[2] + 65536 * b[3] + 16777216 * b[4]

\* The storage key of a chunk: the prefix followed by the index.
index_to_lookup_key(p, idx) == p \o U32ToLe(idx)

----------------------------------------------------------------------------
\* The chunk store (IndexMap).

storage_read(h, idx) ==
    LET key == index_to_lookup_key(h.prefix, idx)
    IN IF key \in DOMAIN h.medium THEN Some(h.medium[key]) ELSE None

\* get_or_init of the cache cell: the storage is read when the cell is empty.
IndexMap_load(h, idx) ==
    IF idx \in DOMAIN h.cache THEN h
    ELSE [h EXCEPT !.cache = Put(@, idx, [value |-> storage_read(h, idx), state |-> "Cached"]),
                   !.reads = Bump(@, idx)]

IndexMap_get(h, idx) ==
    LET h1 == IndexMap_load(h, idx)
    IN R(h1, h1.cache[idx].value, FALSE)

\* value_mut() marks the entry modified whether or not it is then written.
IndexMap_get_mut(h, idx) ==
    LET h1 == IndexMap_load(h, idx)
        h2 == [h1 EXCEPT !.cache[idx].state = "Modified"]
    IN R(h2, h2.cache[idx].value, FALSE)

\* set does not read the storage.
IndexMap_set(h, idx, value) ==
    [h EXCEPT !.cache = Put(@, idx, [value |-> value, state |-> "Modified"])]

IndexMap_remove(h, idx) ==
    LET h1 == IndexMap_load(h, idx)
    IN R([h1 EXCEPT !.cache[idx] = [value |-> None, state |-> "Modified"]],
         h1.cache[idx].value, FALSE)

IndexMap_flush(h) ==
    LET dirty == {k \in DOMAIN h.cache : h.cache[k].state = "Modified"}
        put == {k \in dirty : IsSome(h.cache[k].value)}
        putKeys == {index_to_lookup_key(h.prefix, k) : k \in put}
        delKeys == {index_to_lookup_key(h.prefix, k) : k \in dirty \ put}
        chunkOf(key) == Unwrap(h.cache[CHOOSE k \in put : index_to_lookup_key(h.prefix, k) = key].value)
    IN [h EXCEPT
          !.medium = [key \in (DOMAIN h.medium \ delKeys) \cup putKeys |->
                         IF key \in putKeys THEN chunkOf(key) ELSE h.medium[key]],
          !.cache = [k \in DOMAIN h.cache |->
                         IF k \in dirty THEN [h.cache[k] EXCEPT !.state = "Flushed"]
                         ELSE h.cache[k]],
          !.writes = [k \in DOMAIN h.writes \cup dirty |->
                         CountAt(h.writes, k) + (IF k \in dirty THEN 1 ELSE 0)]]

\* A write through the &mut T that get_mut returned.
chunk_write(h, idx, pos, element) ==
    [h EXCEPT !.cache[idx].value = Some([Unwrap(@) EXCEPT ![pos + 1] = element])]

----------------------------------------------------------------------------
\* ChunkedVector.

\* The vector fields of a new handle; the storage it runs against is the
\* contract's.
ChunkedVector_len(h) == h.len
is_empty(h) == h.len = 0

new(p) == [len |-> 0, prefix |-> p, cache |-> EmptyFn]

\* Faulty variant: len is written most significant byte first.
serialize_be(h) ==
    << (h.len \div 16777216) % 256, (h.len \div 65536) % 256, (h.len \div 256) % 256,
       h.len % 256 >> \o U32ToLe(Len(h.prefix)) \o h.prefix

\* Faulty variant: the first cached chunk is written after the header.
serialize_with_chunk(h) ==
    U32ToLe(h.len) \o U32ToLe(Len(h.prefix)) \o h.prefix
        \o (IF 0 \in DOMAIN h.cache /\ IsSome(h.cache[0].value)
            THEN Unwrap(h.cache[0].value) ELSE <<>>)

serialize(h) == U32ToLe(h.len) \o U32ToLe(Len(h.prefix)) \o h.prefix

\* Faulty variant: the two length fields are read in the wrong order.
deserialize_swapped(buf) ==
    LET l == LeToU32(SubSeq(buf, 5, 8))
        pl == LeToU32(SubSeq(buf, 5, 8))
    IN [len |-> l, prefix |-> SubSeq(buf, 9, 8 + pl), cache |-> EmptyFn]

deserialize(buf) ==
    LET l == LeToU32(SubSeq(buf, 1, 4))
        pl == LeToU32(SubSeq(buf, 5, 8))
    IN [len |-> l, prefix |-> SubSeq(buf, 9, 8 + pl), cache |-> EmptyFn]

RECURSIVE clear_loop(_, _)
clear_loop(h, i) ==
    IF i >= h.len THEN h
    ELSE clear_loop(IndexMap_set(h, i, None), i + 1)

\* Faulty variant: clear commits the removals to the storage at once.
clear_and_flush(h) == IndexMap_flush([clear_loop(h, 0) EXCEPT !.len = 0])

\* Faulty variant: the chunks are removed and len is left as it was.
clear_keep_len(h) == clear_loop(h, 0)

\* Faulty variant: only the whole chunks are removed (len / N of them, rounded down).
clear_floor(h) ==
    [clear_loop([h EXCEPT !.len = h.len \div N], 0) EXCEPT !.len = 0]

clear(h) == [clear_loop(h, 0) EXCEPT !.len = 0]

\* Faulty variant: the namespace is rewritten from the dirty chunks alone.
flush_dirty_only(h) ==
    LET f == IndexMap_flush(h)
        dirty == {k \in DOMAIN h.cache : h.cache[k].state = "Modified"}
        keep == {index_to_lookup_key(h.prefix, k) : k \in dirty} \cap DOMAIN f.medium
    IN [f EXCEPT !.medium = [key \in keep |-> f.medium[key]]]

flush(h) == IndexMap_flush(h)

\* Faulty variant: dropping the vector does not flush it.
drop_no_flush(h) == h

drop(h) == flush(h)

\* Faulty variant: the new length wraps instead of being checked.
push_wrapping(h, element) ==
    LET last_idx == h.len
        h1 == [h EXCEPT !.len = (h.len + 1) % (U32_MAX + 1)]
        chunk_idx == chunk_index(last_idx)
        pos == chunk_pos(last_idx)
    IN IF pos = 0
       THEN R(IndexMap_set(h1, chunk_idx, Some([ZeroedChunk EXCEPT ![1] = element])),
              None, FALSE)
       ELSE LET g == IndexMap_get_mut(h1, chunk_idx)
            IN IF IsNone(g.ret) THEN R(g.h, None, TRUE)
               ELSE R(chunk_write(g.h, chunk_idx, pos, element), None, FALSE)

\* Faulty variant: push writes the chunk through to the storage at once.
push_write_through(h, element) ==
    LET last_idx == h.len
        h1 == [h EXCEPT !.len = h.len + 1]
        chunk_idx == chunk_index(last_idx)
        pos == chunk_pos(last_idx)
    IN IF h.len + 1 > U32_MAX THEN R(h, None, TRUE)
       ELSE IF pos = 0
       THEN R(flush(IndexMap_set(h1, chunk_idx, Some([ZeroedChunk EXCEPT ![1] = element]))),
              None, FALSE)
       ELSE LET g == IndexMap_get_mut(h1, chunk_idx)
            IN IF IsNone(g.ret) THEN R(g.h, None, TRUE)
               ELSE R(flush(chunk_write(g.h, chunk_idx, pos, element)), None, FALSE)

push(h, element) ==
    IF h.len + 1 > U32_MAX THEN R(h, None, TRUE)
    ELSE LET last_idx == h.len
             h1 == [h EXCEPT !.len = h.len + 1]
             chunk_idx == chunk_index(last_idx)
             pos == chunk_pos(last_idx)
         IN IF pos = 0
            THEN R(IndexMap_set(h1, chunk_idx, Some([ZeroedChunk EXCEPT ![1] = element])),
                   None, FALSE)
            ELSE LET g == IndexMap_get_mut(h1, chunk_idx)
                 IN IF IsNone(g.ret) THEN R(g.h, None, TRUE)
                    ELSE R(chunk_write(g.h, chunk_idx, pos, element), None, FALSE)

\* Faulty variant: the chunk is fetched through the mutable accessor.
get_marks_modified(h, index) ==
    IF index >= h.len THEN R(h, None, FALSE)
    ELSE LET g == IndexMap_get_mut(h, chunk_index(index))
         IN R(g.h, IF IsNone(g.ret) THEN None ELSE Some(Unwrap(g.ret)[chunk_pos(index) + 1]), FALSE)

\* Faulty variant: the chunk slot is returned whatever len is.
get_unchecked(h, index) ==
    LET g == IndexMap_get(h, chunk_index(index))
    IN R(g.h, IF IsNone(g.ret) THEN None ELSE Some(Unwrap(g.ret)[chunk_pos(index) + 1]), FALSE)

get(h, index) ==
    IF index >= h.len THEN R(h, None, FALSE)
    ELSE LET g == IndexMap_get(h, chunk_index(index))
         IN R(g.h, IF IsNone(g.ret) THEN None ELSE Some(Unwrap(g.ret)[chunk_pos(index) + 1]), FALSE)

get_mut(h, index) ==
    IF index >= h.len THEN R(h, None, FALSE)
    ELSE LET g == IndexMap_get_mut(h, chunk_index(index))
         IN R(g.h, IF IsNone(g.ret) THEN None ELSE Some(Unwrap(g.ret)[chunk_pos(index) + 1]), FALSE)

\* Faulty variant: the chunk is never removed; the popped slot is zeroed in place.
pop_keep_chunk(h) ==
    IF h.len - 1 < 0 THEN R(h, None, FALSE)
    ELSE LET new_idx == h.len - 1
             g == IndexMap_get_mut(h, chunk_index(new_idx))
         IN IF IsNone(g.ret) THEN R([g.h EXCEPT !.len = new_idx], None, FALSE)
            ELSE R([chunk_write(g.h, chunk_index(new_idx), chunk_pos(new_idx), Zero)
                       EXCEPT !.len = new_idx],
                   Some(Unwrap(g.ret)[chunk_pos(new_idx) + 1]), FALSE)

\* Faulty variant: both branches return the first element of the chunk.
pop_first(h) ==
    IF h.len - 1 < 0 THEN R(h, None, FALSE)
    ELSE LET new_idx == h.len - 1
             chunk_idx == chunk_index(new_idx)
         IN IF chunk_pos(new_idx) = 0
            THEN LET r == IndexMap_remove(h, chunk_idx)
                 IN IF IsNone(r.ret) THEN R(r.h, None, TRUE)
                    ELSE R([r.h EXCEPT !.len = new_idx], Some(Unwrap(r.ret)[1]), FALSE)
            ELSE LET g == IndexMap_get_mut(h, chunk_idx)
                 IN IF IsNone(g.ret) THEN R([g.h EXCEPT !.len = new_idx], None, FALSE)
                    ELSE R([chunk_write(g.h, chunk_idx, chunk_pos(new_idx), Zero)
                               EXCEPT !.len = new_idx],
                           Some(Unwrap(g.ret)[1]), FALSE)

\* Faulty variant: the chunk is removed whatever the popped position is.
pop_remove_always(h) ==
    IF h.len - 1 < 0 THEN R(h, None, FALSE)
    ELSE LET new_idx == h.len - 1
             r == IndexMap_remove(h, chunk_index(new_idx))
         IN IF IsNone(r.ret) THEN R(r.h, None, TRUE)
            ELSE R([r.h EXCEPT !.len = new_idx],
                   Some(Unwrap(r.ret)[chunk_pos(new_idx) + 1]), FALSE)

pop(h) ==
    IF h.len - 1 < 0 THEN R(h, None, FALSE)
    ELSE LET new_idx == h.len - 1
             pop_position == chunk_pos(new_idx)
             chunk_idx == chunk_index(new_idx)
         IN IF pop_position = 0
            THEN LET r == IndexMap_remove(h, chunk_idx)
                 IN IF IsNone(r.ret) THEN R(r.h, None, TRUE)
                    ELSE R([r.h EXCEPT !.len = new_idx], Some(Unwrap(r.ret)[1]), FALSE)
            ELSE LET g == IndexMap_get_mut(h, chunk_idx)
                 IN IF IsNone(g.ret) THEN R([g.h EXCEPT !.len = new_idx], None, FALSE)
                    ELSE R([chunk_write(g.h, chunk_idx, pop_position, Zero) EXCEPT !.len = new_idx],
                           Some(Unwrap(g.ret)[pop_position + 1]), FALSE)

\* Faulty variant: equal indices are not returned early.
swap_in_range_no_shortcut(h, a, b) ==
    LET a_idx == chunk_index(a)
    IN IF a_idx = chunk_index(b)
       THEN LET g == IndexMap_get_mut(h, a_idx)
            IN IF IsNone(g.ret) THEN R(g.h, None, TRUE)
               ELSE LET chunk == Unwrap(g.ret)
                        h1 == chunk_write(g.h, a_idx, chunk_pos(a), chunk[chunk_pos(b) + 1])
                    IN R(chunk_write(h1, a_idx, chunk_pos(b), chunk[chunk_pos(a) + 1]),
                         None, FALSE)
       ELSE LET ga == get_mut(h, a)
            IN IF IsNone(ga.ret) THEN R(ga.h, None, TRUE)
               ELSE LET gb == get_mut(ga.h, b)
                    IN IF IsNone(gb.ret) THEN R(gb.h, None, TRUE)
                       ELSE LET h1 == chunk_write(gb.h, a_idx, chunk_pos(a), Unwrap(gb.ret))
                            IN R(chunk_write(h1, chunk_index(b), chunk_pos(b), Unwrap(ga.ret)),
                                 None, FALSE)

\* swap once both indices are known to be in range.
swap_in_range(h, a, b) ==
    IF a = b THEN R(h, None, FALSE)
    ELSE LET a_idx == chunk_index(a)
         IN IF a_idx = chunk_index(b)
            THEN LET g == IndexMap_get_mut(h, a_idx)
                 IN IF IsNone(g.ret) THEN R(g.h, None, TRUE)
                    ELSE LET chunk == Unwrap(g.ret)
                             h1 == chunk_write(g.h, a_idx, chunk_pos(a), chunk[chunk_pos(b) + 1])
                         IN R(chunk_write(h1, a_idx, chunk_pos(b), chunk[chunk_pos(a) + 1]),
                              None, FALSE)
            ELSE LET ga == get_mut(h, a)
                 IN IF IsNone(ga.ret) THEN R(ga.h, None, TRUE)
                    ELSE LET gb == get_mut(ga.h, b)
                         IN IF IsNone(gb.ret) THEN R(gb.h, None, TRUE)
                            ELSE LET h1 == chunk_write(gb.h, a_idx, chunk_pos(a), Unwrap(gb.ret))
                                 IN R(chunk_write(h1, chunk_index(b), chunk_pos(b), Unwrap(ga.ret)),
                                      None, FALSE)

\* Faulty variant: an index past the end is clamped to the last element.
swap_clamped(h, a, b) ==
    IF h.len = 0 THEN R(h, None, TRUE)
    ELSE swap_in_range(h, IF a >= h.len THEN h.len - 1 ELSE a,
                          IF b >= h.len THEN h.len - 1 ELSE b)

\* Faulty variant: across chunks only the first element is overwritten.
swap_one_sided(h, a, b) ==
    IF a >= h.len \/ b >= h.len THEN R(h, None, TRUE)
    ELSE IF chunk_index(a) = chunk_index(b) THEN swap_in_range(h, a, b)
    ELSE LET ga == get_mut(h, a)
             gb == get_mut(ga.h, b)
         IN IF IsNone(ga.ret) \/ IsNone(gb.ret) THEN R(gb.h, None, TRUE)
            ELSE R(chunk_write(gb.h, chunk_index(a), chunk_pos(a), Unwrap(gb.ret)), None, FALSE)

swap(h, a, b) ==
    IF a >= h.len \/ b >= h.len THEN R(h, None, TRUE)
    ELSE swap_in_range(h, a, b)

\* Faulty variant: the element is not swapped to the end before the pop.
swap_remove_no_swap(h, index) ==
    IF h.len = 0 \/ index >= h.len THEN R(h, None, TRUE)
    ELSE LET p == pop(h)
         IN IF p.abort \/ IsNone(p.ret) THEN R(p.h, None, TRUE)
            ELSE R(p.h, Unwrap(p.ret), FALSE)

\* len successive pops (the loop of tests::test_push_pop), stopped by a panic.
RECURSIVE pop_all(_, _)
pop_all(h, k) ==
    IF k = 0 THEN R(h, None, FALSE)
    ELSE LET p == pop(h)
         IN IF p.abort THEN p ELSE pop_all(p.h, k - 1)

swap_remove(h, index) ==
    IF h.len = 0 THEN R(h, None, TRUE)
    ELSE LET s == swap(h, index, h.len - 1)
         IN IF s.abort THEN s
            ELSE LET p == pop(s.h)
                 IN IF p.abort \/ IsNone(p.ret) THEN R(p.h, None, TRUE)
                    ELSE R(p.h, Unwrap(p.ret), FALSE)

RECURSIVE extend(_, _)
extend(h, iter) ==
    IF Len(iter) = 0 THEN R(h, None, FALSE)
    ELSE LET p == push(h, Head(iter))
         IN IF p.abort THEN p ELSE extend(p.h, Tail(iter))

\* Index<u32>: a shared reference to the element, or a panic.
index(h, i) ==
    LET g == get(h, i)
    IN IF IsNone(g.ret) THEN R(g.h, None, TRUE) ELSE g

\* IndexMut<u32>, followed by the assignment through the reference.
index_mut(h, i, element) ==
    LET g == get_mut(h, i)
    IN IF IsNone(g.ret) THEN R(g.h, None, TRUE)
       ELSE R(chunk_write(g.h, chunk_index(i), chunk_pos(i), element), g.ret, FALSE)

\* get_mut(i) followed by a write through the reference when it is Some.
get_mut_write(h, i, element) ==
    LET g == get_mut(h, i)
    IN IF IsNone(g.ret) THEN g
       ELSE R(chunk_write(g.h, chunk_index(i), chunk_pos(i), element), g.ret, FALSE)

----------------------------------------------------------------------------
\* The iterators.  range is a core::ops::Range<u32>; nth and nth_back of the
\* range give the index to read and leave the range exhausted on an overshoot.

Range(start, end) == [start |-> start, end |-> end]
Range_len(r) == IF r.start < r.end THEN r.end - r.start ELSE 0

Range_nth(r, n) ==
    IF r.start + n <= U32_MAX /\ r.start + n < r.end
    THEN [range |-> [r EXCEPT !.start = r.start + n + 1], idx |-> Some(r.start + n)]
    ELSE [range |-> [r EXCEPT !.start = r.end], idx |-> None]

Range_nth_back(r, n) ==
    IF r.end - n >= 0 /\ r.end - n > r.start
    THEN [range |-> [r EXCEPT !.end = r.end - n - 1], idx |-> Some(r.end - n - 1)]
    ELSE [range |-> [r EXCEPT !.end = r.start], idx |-> None]

\* The result of an iterator method: the vector and the range after it, the
\* index it read, what it returned and whether it panicked.
I(h, r, idx, ret, abort) == [h |-> h, range |-> r, idx |-> idx, ret |-> ret, abort |-> abort]

Iter_new(h) == Range(0, h.len)

\* Faulty variant: the range ends one past the last element.
IterMut_new_inclusive(h) == Range(0, h.len + 1)

IterMut_new(h) == Range(0, h.len)
remaining(r) == Range_len(r)

\* Faulty variant: an overshoot returns None and leaves the range as it was.
Iter_nth_no_exhaust(h, r, n) ==
    IF n >= Range_len(r) THEN I(h, r, None, None, FALSE)
    ELSE LET s == Range_nth(r, n)
             g == get(h, Unwrap(s.idx))
         IN I(g.h, s.range, s.idx, g.ret, IsNone(g.ret))

\* Faulty variant: nth steps over the skipped elements one by one.
RECURSIVE get_each(_, _, _)
get_each(h, i, j) == IF i > j THEN h ELSE get_each(get(h, i).h, i + 1, j)
Iter_nth_by_next(h, r, n) ==
    LET s == Range_nth(r, n)
    IN IF IsNone(s.idx) THEN I(h, s.range, None, None, FALSE)
       ELSE LET g == get(get_each(h, r.start, Unwrap(s.idx)), Unwrap(s.idx))
            IN I(g.h, s.range, s.idx, g.ret, IsNone(g.ret))

Iter_nth(h, r, n) ==
    LET s == Range_nth(r, n)
    IN IF IsNone(s.idx) THEN I(h, s.range, None, None, FALSE)
       ELSE LET g == get(h, Unwrap(s.idx))
            IN I(g.h, s.range, s.idx, g.ret, IsNone(g.ret))

Iter_next(h, r) == Iter_nth(h, r, 0)
Iter_size_hint(h, r) == I(h, r, None, <<remaining(r), Some(remaining(r))>>, FALSE)
Iter_count(h, r) == I(h, r, None, remaining(r), FALSE)

\* Faulty variant: the index is counted from the front of the range.
Iter_nth_back_front(h, r, n) ==
    LET s == Range_nth(r, n)
    IN IF IsNone(s.idx) THEN I(h, s.range, None, None, FALSE)
       ELSE LET g == get(h, Unwrap(s.idx))
            IN I(g.h, s.range, s.idx, g.ret, IsNone(g.ret))

Iter_nth_back(h, r, n) ==
    LET s == Range_nth_back(r, n)
    IN IF IsNone(s.idx) THEN I(h, s.range, None, None, FALSE)
       ELSE LET g == get(h, Unwrap(s.idx))
            IN I(g.h, s.range, s.idx, g.ret, IsNone(g.ret))

Iter_next_back(h, r) == Iter_nth_back(h, r, 0)

IterMut_get_mut(h, at) == get_mut(h, at)

IterMut_nth(h, r, n) ==
    LET s == Range_nth(r, n)
    IN IF IsNone(s.idx) THEN I(h, s.range, None, None, FALSE)
       ELSE LET g == IterMut_get_mut(h, Unwrap(s.idx))
            IN I(g.h, s.range, s.idx, g.ret, IsNone(g.ret))

IterMut_next(h, r) == IterMut_nth(h, r, 0)
IterMut_size_hint(h, r) == I(h, r, None, <<remaining(r), Some(remaining(r))>>, FALSE)
IterMut_count(h, r) == I(h, r, None, remaining(r), FALSE)

\* Faulty variant: the element is read and the end of the range stays.
IterMut_nth_back_keep_end(h, r, n) ==
    LET s == Range_nth_back(r, n)
    IN IF IsNone(s.idx) THEN I(h, s.range, None, None, FALSE)
       ELSE LET g == IterMut_get_mut(h, Unwrap(s.idx))
            IN I(g.h, r, s.idx, g.ret, IsNone(g.ret))

IterMut_nth_back(h, r, n) ==
    LET s == Range_nth_back(r, n)
    IN IF IsNone(s.idx) THEN I(h, s.range, None, None, FALSE)
       ELSE LET g == IterMut_get_mut(h, Unwrap(s.idx))
            IN I(g.h, s.range, s.idx, g.ret, IsNone(g.ret))

IterMut_next_back(h, r) == IterMut_nth_back(h, r, 0)

----------------------------------------------------------------------------
\* The reference Vec<T> (the baseline of the tests), as a sequence.

VecSwap(v, a, b) == [v EXCEPT ![a + 1] = v[b + 1], ![b + 1] = v[a + 1]]
VecPop(v) == SubSeq(v, 1, Len(v) - 1)
VecSwapRemove(v, i) == VecPop(VecSwap(v, i, Len(v) - 1))
VecGet(v, i) == IF i < Len(v) THEN Some(v[i + 1]) ELSE None

\* The reference Vec's iterator, as the sequence it has left to yield.
VecIter_nth(s, n) ==
    IF n < Len(s) THEN [rest |-> SubSeq(s, n + 2, Len(s)), ret |-> Some(s[n + 1])]
    ELSE [rest |-> <<>>, ret |-> None]
VecIter_nth_back(s, n) ==
    IF n < Len(s) THEN [rest |-> SubSeq(s, 1, Len(s) - n - 1), ret |-> Some(s[Len(s) - n])]
    ELSE [rest |-> <<>>, ret |-> None]

----------------------------------------------------------------------------
\* The state machine.

\* The last event.  The operation is named when it flushed or panicked; an
\* operation that returned is "ok".
Returned == <<"ok", "-">>
Panicked(op) == <<"panic", op>>
Flushed(op) == <<"flush", op>>
Event(op, r) == IF r.abort THEN Panicked(op) ELSE Returned

\* A flush ends a session of writes: the count starts again after it.
SessionWrites == IF last[1] \in {"flush", "new"} THEN EmptyFn ELSE writes

H == [len |-> len, prefix |-> prefix, cache |-> cache, medium |-> medium,
      reads |-> reads, writes |-> SessionWrites]

NoIter == [kind |-> "none", range |-> Range(0, 0)]
NoAddr == [index |-> 0, chunk |-> 0, pos |-> 0]

SetVec(h) ==
    /\ len' = h.len
    /\ prefix' = h.prefix
    /\ cache' = h.cache
    /\ medium' = h.medium
    /\ reads' = IF counting THEN h.reads ELSE EmptyFn
    /\ writes' = IF counting THEN h.writes ELSE EmptyFn
    /\ UNCHANGED <<N, counting, cap, popped, addr>>

Set(h) == SetVec(h) /\ UNCHANGED <<it, rest, seen>>

Done(op, r) ==
    /\ status' = IF r.abort THEN "aborted" ELSE status
    /\ last' = Event(op, r)

InitVec ==
    /\ N \in 1 .. MaxN
    /\ len = new(Prefix).len
    /\ prefix = new(Prefix).prefix
    /\ cache = new(Prefix).cache
    /\ medium = EmptyFn
    /\ reads = EmptyFn
    /\ writes = EmptyFn
    /\ mv = <<>>
    /\ popped = <<>>
    /\ last = <<"new", "new">>
    /\ status = "live"
    /\ it = NoIter
    /\ rest = <<>>
    /\ seen = {}
    /\ addr = NoAddr

Init ==
    /\ InitVec
    /\ counting = FALSE
    /\ cap = MaxLen

\* The environment grows the vector up to cap, or at the top of the u32 range.
CanGrow(k) == len + k <= cap \/ len >= U32_MAX - cap

PushOf(e) ==
    /\ status = "live"
    /\ CanGrow(1)
    /\ LET r == push(H, e)
       IN /\ Set(r.h)
          /\ Done("push", r)
          /\ mv' = IF r.abort THEN mv ELSE Append(mv, e)

Push == \E e \in Values : PushOf(e)

ExtInputs == UNION {[1 .. k -> Values] : k \in 0 .. MaxExt}

Extend ==
    \E s \in ExtInputs :
        /\ status = "live"
        /\ CanGrow(Len(s))
        /\ LET r == extend(H, s)
           IN /\ Set(r.h)
              /\ Done("extend", r)
              /\ mv' = IF r.abort THEN mv ELSE mv \o s

Pop ==
    /\ status = "live"
    /\ LET r == pop(H)
       IN /\ Set(r.h)
          /\ Done("pop", r)
          /\ mv' = IF r.abort \/ Len(mv) = 0 THEN mv ELSE VecPop(mv)

Swap ==
    \E a \in Idx, b \in Idx :
        /\ status = "live"
        /\ LET r == swap(H, a, b)
           IN /\ Set(r.h)
              /\ Done("swap", r)
              /\ mv' = IF r.abort \/ a >= Len(mv) \/ b >= Len(mv) THEN mv
                       ELSE VecSwap(mv, a, b)

SwapRemove ==
    \E i \in Idx :
        /\ status = "live"
        /\ LET r == swap_remove(H, i)
           IN /\ Set(r.h)
              /\ Done("swap_remove", r)
              /\ mv' = IF r.abort \/ i >= Len(mv) THEN mv ELSE VecSwapRemove(mv, i)

Get ==
    \E i \in Idx :
        /\ status \in {"live", "reloaded"}
        /\ LET r == get(H, i)
           IN /\ Set(r.h)
              /\ Done("get", r)
              /\ mv' = mv

GetMutOf(i, e) ==
    /\ status \in {"live", "reloaded"}
    /\ LET r == get_mut_write(H, i, e)
       IN /\ Set(r.h)
          /\ Done("get_mut", r)
          /\ mv' = IF IsNone(r.ret) \/ i >= Len(mv) THEN mv ELSE [mv EXCEPT ![i + 1] = e]

GetMut == \E i \in Idx, e \in Values : GetMutOf(i, e)

Index ==
    \E i \in Idx :
        /\ status = "live"
        /\ LET r == index(H, i)
           IN /\ Set(r.h)
              /\ Done("index", r)
              /\ mv' = mv

IndexMut ==
    \E i \in Idx, e \in Values :
        /\ status = "live"
        /\ LET r == index_mut(H, i, e)
           IN /\ Set(r.h)
              /\ Done("index_mut", r)
              /\ mv' = IF r.abort \/ i >= Len(mv) THEN mv ELSE [mv EXCEPT ![i + 1] = e]

Clear ==
    /\ status = "live"
    /\ len <= cap
    /\ Set(clear(H))
    /\ status' = "live"
    /\ last' = Returned
    /\ mv' = <<>>

Flush ==
    /\ status = "live"
    /\ Set(flush(H))
    /\ status' = "live"
    /\ last' = Flushed("flush")
    /\ mv' = mv

\* Op::Reset of tests::arbitrary: sv = deserialize(serialize(sv)).  The new
\* handle is built with an empty cache, then the assignment drops the old
\* one, which flushes it, before the new one is used.
Reset ==
    /\ status = "live"
    /\ LET old == drop(H)
           fresh == deserialize(serialize(H))
       IN Set([old EXCEPT !.len = fresh.len, !.prefix = fresh.prefix,
                          !.cache = fresh.cache, !.reads = EmptyFn])
    /\ status' = "live"
    /\ last' = Flushed("reset")
    /\ mv' = mv

\* The vector goes out of scope.
Drop ==
    /\ status = "live"
    /\ Set(drop(H))
    /\ status' = "dropped"
    /\ last' = Flushed("drop")
    /\ mv' = mv

\* The handle is replaced by one deserialized from its header while the old
\* one is neither flushed nor dropped (it is still alive and unused, or was
\* passed to mem::forget).  The new handle is then only read through get and
\* get_mut ("reloaded").
ResetForget ==
    /\ status = "live"
    /\ LET fresh == deserialize(serialize(H))
       IN Set([H EXCEPT !.len = fresh.len, !.prefix = fresh.prefix,
                        !.cache = fresh.cache, !.reads = EmptyFn])
    /\ status' = "reloaded"
    /\ last' = <<"forget", "reset">>
    /\ mv' = mv

Next ==
    \/ Push
    \/ Extend
    \/ Pop
    \/ Swap
    \/ SwapRemove
    \/ Get
    \/ GetMut
    \/ Clear
    \/ Flush
    \/ Reset
    \/ Drop

Spec == Init /\ [][Next]_vars

\* The same operations with the storage accesses counted.
InitCount ==
    /\ InitVec
    /\ counting = TRUE
    /\ cap = MaxMem

\* The accesses do not depend on the elements: one value is pushed and
\* written.
NextCount ==
    \/ PushOf(1)
    \/ Pop
    \/ Swap
    \/ SwapRemove
    \/ Get
    \/ (\E i \in Idx : GetMutOf(i, 1))
    \/ Clear
    \/ Flush
    \/ Reset
    \/ Drop

SpecCount == InitCount /\ [][NextCount]_vars

\* The operations on the cache alone, indexing included: nothing is flushed.
InitMem ==
    /\ InitVec
    /\ counting = FALSE
    /\ cap = MaxMem

NextMem ==
    \/ Push
    \/ Extend
    \/ Pop
    \/ Swap
    \/ SwapRemove
    \/ Get
    \/ GetMut
    \/ Index
    \/ IndexMut
    \/ Clear

SpecMem == InitMem /\ [][NextMem]_vars

\* A handle may also be replaced without being flushed.
NextForget ==
    \/ Next
    \/ ResetForget

SpecForget == Init /\ [][NextForget]_vars

\* A handle deserialized from a header whose len is at the top of the u32
\* range, on an empty storage.
InitMax ==
    /\ N \in 1 .. MaxN
    /\ \E l \in (U32_MAX - MaxLen) .. U32_MAX :
          LET v == deserialize(serialize([len |-> l, prefix |-> Prefix]))
          IN /\ len = v.len
             /\ prefix = v.prefix
             /\ cache = v.cache
    /\ medium = EmptyFn
    /\ reads = EmptyFn
    /\ writes = EmptyFn
    /\ counting = FALSE
    /\ cap = MaxLen
    /\ mv = <<>>
    /\ popped = <<>>
    /\ last = <<"new", "deserialize">>
    /\ status = "live"
    /\ it = NoIter
    /\ rest = <<>>
    /\ seen = {}
    /\ addr = NoAddr

NextMax ==
    \/ Push
    \/ Pop
    \/ Get

SpecMax == InitMax /\ [][NextMax]_vars

\* tests::test_push_pop: values are pushed onto an empty vector, then popped,
\* once more than were pushed; the vector may be flushed in between.
PushThenPop ==
    \E e \in Values :
        /\ status = "live"
        /\ popped = <<>>
        /\ CanGrow(1)
        /\ LET r == push(H, e)
           IN /\ Set(r.h)
              /\ Done("push", r)
              /\ mv' = Append(mv, e)

PopAll ==
    /\ status = "live"
    /\ Len(popped) <= Len(mv)
    /\ LET r == pop(H)
       IN /\ len' = r.h.len
          /\ prefix' = r.h.prefix
          /\ cache' = r.h.cache
          /\ medium' = r.h.medium
          /\ Done("pop", r)
          /\ popped' = Append(popped, r.ret)
    /\ UNCHANGED <<N, reads, writes, counting, cap, mv, it, rest, seen, addr>>

NextPushPop ==
    \/ PushThenPop
    \/ PopAll
    \/ Flush

SpecPushPop == InitMem /\ [][NextPushPop]_vars

\* tests::iterator_checks: the values 1, 2, ... are pushed, the vector may be
\* reloaded, and an iterator over it is stepped next to the iterator of the
\* reference Vec.
InitIter ==
    /\ InitVec
    /\ counting = FALSE
    /\ cap = MaxIter

PushNext ==
    /\ status = "live"
    /\ len < cap
    /\ LET r == push(H, len + 1)
       IN /\ Set(r.h)
          /\ Done("push", r)
          /\ mv' = Append(mv, len + 1)

IterStart ==
    \E kind \in {"Iter", "IterMut"} :
        /\ status = "live"
        /\ it' = [kind |-> kind,
                  range |-> IF kind = "Iter" THEN Iter_new(H) ELSE IterMut_new(H)]
        /\ rest' = mv
        /\ seen' = {}
        /\ status' = "iterating"
        /\ last' = <<"iter", kind>>
        /\ UNCHANGED <<N, len, prefix, cache, medium, reads, writes, counting, cap, mv, popped,
                       addr>>

Skips == (0 .. MaxSkip) \cup {U32_MAX}

Nth(n) == IF it.kind = "Iter" THEN Iter_nth(H, it.range, n) ELSE IterMut_nth(H, it.range, n)
NthBack(n) ==
    IF it.kind = "Iter" THEN Iter_nth_back(H, it.range, n) ELSE IterMut_nth_back(H, it.range, n)
Next_ == IF it.kind = "Iter" THEN Iter_next(H, it.range) ELSE IterMut_next(H, it.range)
NextBack ==
    IF it.kind = "Iter" THEN Iter_next_back(H, it.range) ELSE IterMut_next_back(H, it.range)

IterEvent(op, r) ==
    <<IF r.abort THEN "panic" ELSE IF IsNone(r.ret) THEN "none" ELSE "some", op>>

IterStep(op, r, ref) ==
    /\ status = "iterating"
    /\ SetVec(r.h)
    /\ it' = [it EXCEPT !.range = r.range]
    /\ rest' = ref.rest
    /\ seen' = IF IsSome(r.idx) THEN seen \cup {Unwrap(r.idx)} ELSE seen
    /\ status' = IF r.abort THEN "aborted" ELSE status
    /\ last' = IterEvent(op, r)
    /\ mv' = mv

IterNext == IterStep("next", Next_, VecIter_nth(rest, 0))
IterNextBack == IterStep("next_back", NextBack, VecIter_nth_back(rest, 0))
IterNth == \E n \in Skips : IterStep("nth", Nth(n), VecIter_nth(rest, n))
IterNthBack == \E n \in Skips : IterStep("nth_back", NthBack(n), VecIter_nth_back(rest, n))

\* The iterator goes out of scope and the borrow of the vector ends.
IterEnd ==
    /\ status = "iterating"
    /\ status' = "live"
    /\ it' = NoIter
    /\ rest' = <<>>
    /\ seen' = {}
    /\ last' = Returned
    /\ UNCHANGED <<N, len, prefix, cache, medium, reads, writes, counting, cap, mv, popped, addr>>

NextIter ==
    \/ PushNext
    \/ Reset
    \/ IterStart
    \/ IterNext
    \/ IterNextBack
    \/ IterNth
    \/ IterNthBack
    \/ IterEnd

SpecIter == InitIter /\ [][NextIter]_vars

\* The addressing of an element index, for chunk capacities small and large
\* and indices at both ends of the u32 range.
Capacities == (1 .. MaxN) \cup {MaxAddr, U32_MAX}
Indices == (0 .. MaxAddr) \cup ((U32_MAX - MaxAddr) .. U32_MAX)

InitAddr ==
    /\ N \in Capacities
    /\ len = new(Prefix).len
    /\ prefix = new(Prefix).prefix
    /\ cache = new(Prefix).cache
    /\ medium = EmptyFn
    /\ reads = EmptyFn
    /\ writes = EmptyFn
    /\ counting = FALSE
    /\ cap = MaxLen
    /\ mv = <<>>
    /\ popped = <<>>
    /\ last = <<"new", "new">>
    /\ status = "live"
    /\ it = NoIter
    /\ rest = <<>>
    /\ seen = {}
    /\ addr = NoAddr

Locate ==
    \E i \in Indices :
        /\ addr' = [index |-> i, chunk |-> chunk_index(i), pos |-> chunk_pos(i)]
        /\ UNCHANGED <<N, len, prefix, cache, medium, reads, writes, counting, cap, mv, popped,
                       last, status, it, rest, seen>>

NextAddr == Locate

SpecAddr == InitAddr /\ [][NextAddr]_vars

----------------------------------------------------------------------------
\* Properties.

\* What get(i) reports on a handle, and what the store reports for a chunk.
View(h, i) == get(h, i).ret
Present(h, c) == IsSome(IndexMap_get(h, c).ret)
ChunkKeys(n) == {index_to_lookup_key(prefix, c) : c \in {x \in 0 .. n : x * N < n}}
NoDirty == \A c \in DOMAIN cache : cache[c].state # "Modified"

\* C1: after every operation (push, extend, pop, swap, swap_remove, a write
\* through get_mut, clear, flush, reload) the vector and the reference Vec
\* agree: len() is the Vec's length, get(i) is the Vec's element for every
\* i < len, and pop and swap_remove return what they return on the Vec.
C1_Lockstep ==
    /\ len = Len(mv)
    /\ \A i \in 0 .. cap : View(H, i) = VecGet(mv, i)
    /\ pop(H).ret = (IF Len(mv) = 0 THEN None ELSE Some(mv[Len(mv)]))
    /\ ~pop(H).abort
    /\ \A i \in 0 .. len - 1 :
          LET r == swap_remove(H, i)
          IN /\ ~r.abort
             /\ r.ret = mv[i + 1]
             /\ \A j \in 0 .. cap : View(r.h, j) = VecGet(VecSwapRemove(mv, i), j)

\* A reloaded vector of two different elements.
C1_Witness ==
    /\ last = Flushed("reset")
    /\ len = 2
    /\ mv[1] # mv[2]
    /\ swap_remove(H, 0).ret = mv[1]

\* C2: after flush(), and after the vector is dropped, the storage holds the
\* logical value of every element i < len at position i % N of chunk i / N,
\* and holds no chunk at an index above that of the last element.
C2_FlushedStorage ==
    last[1] = "flush" =>
        /\ \A i \in 0 .. len - 1 :
              LET key == index_to_lookup_key(prefix, chunk_index(i))
              IN /\ key \in DOMAIN medium
                 /\ medium[key][chunk_pos(i) + 1] = mv[i + 1]
        /\ DOMAIN medium = ChunkKeys(len)

\* A dropped vector of two different elements.
C2_Witness ==
    /\ last = Flushed("drop")
    /\ len = 2
    /\ mv[1] # mv[2]
    /\ medium # EmptyFn

\* The bytes of a handle read back, and the step that replaces the handle by it.
RoundTripStep == last'[2] = "reset"
RoundTripSame ==
    /\ len' = len
    /\ \A i \in 0 .. cap : View(H, i)' = View(H, i)

\* C3 as stated: every serialize / deserialize round trip gives a vector with
\* the same len() and the same get(i) for every i < len.
C3_AsStated == [][RoundTripStep => RoundTripSame]_vars

\* C3: a serialize / deserialize round trip gives a vector with the same
\* len() and the same get(i) for every i < len, when the original has been
\* flushed or dropped after its last mutation.
C3_RoundTrip == [][RoundTripStep /\ (last'[1] = "flush" \/ NoDirty) => RoundTripSame]_vars

\* A handle read back from its bytes without a flush, when nothing was pending.
C3_Witness ==
    /\ last = <<"forget", "reset">>
    /\ len = 2
    /\ mv[1] # mv[2]
    /\ \A i \in 0 .. 1 : View(H, i) = Some(mv[i + 1])

\* C4: in every state reached by push, pop, swap, swap_remove, get_mut, clear
\* and flush, the store (through its cache) reports a chunk at index c exactly
\* when c * N < len.
C4_ChunkPresence ==
    \A c \in (0 .. cap + 1) \cup DOMAIN cache : Present(H, c) <=> c * N < len

\* A removed chunk in the cache next to a present one.
C4_Witness ==
    /\ len >= 1
    /\ \E c \in DOMAIN cache : IsNone(cache[c].value) /\ c * N >= len
    /\ Present(H, 0)

\* C5 as stated: get(i) and get_mut(i) with i < len abort when the store has
\* no chunk at index i / N.
C5_MissingChunkAborts ==
    \A i \in 0 .. len - 1 :
        ~Present(H, chunk_index(i)) => get(H, i).abort /\ get_mut(H, i).abort

\* C6: swap_remove(i) with i < len returns the element at i, shortens the
\* vector by one, leaves the former last element at i when i was not the last
\* index, and leaves every other index below the new length as it was.
C6_SwapRemove ==
    \A i \in 0 .. len - 1 :
        LET r == swap_remove(H, i)
        IN /\ ~r.abort
           /\ Some(r.ret) = View(H, i)
           /\ r.h.len = len - 1
           /\ i # len - 1 => View(r.h, i) = View(H, len - 1)
           /\ \A j \in 0 .. len - 2 : j # i => View(r.h, j) = View(H, j)

\* A removal across two chunks that moves the last element.
C6_Witness ==
    /\ status = "live"
    /\ len = 3
    /\ N = 2
    /\ mv[1] # mv[3]
    /\ swap_remove(H, 0).ret = mv[1]
    /\ View(swap_remove(H, 0).h, 0) = Some(mv[3])
    /\ View(swap_remove(H, 0).h, 1) = Some(mv[2])

\* C7: after pushing x1 .. xk onto an empty vector, k pops return Some(xk)
\* down to Some(x1) in that order, leave the vector empty, and one more pop
\* returns None.
C7_PushPop ==
    /\ \A k \in 1 .. Len(popped) :
          popped[k] = (IF k <= Len(mv) THEN Some(mv[Len(mv) + 1 - k]) ELSE None)
    /\ Len(popped) >= Len(mv) => len = 0 /\ IsNone(View(H, 0))
    /\ len = (IF Len(popped) >= Len(mv) THEN 0 ELSE Len(mv) - Len(popped))

\* Three pushes, three pops and the extra pop.
C7_Witness ==
    /\ Len(mv) = 3
    /\ Len(popped) = 4
    /\ mv[1] # mv[3]

\* C8: len stays within 0 .. u32::MAX, and push on a vector of u32::MAX
\* elements aborts and leaves len as it is; the length never wraps.
C8_NoWrap ==
    /\ len \in 0 .. U32_MAX
    /\ len = U32_MAX =>
          \A e \in Values : push(H, e).abort /\ push(H, e).h.len = U32_MAX

\* The push that aborted on the full vector.
C8_Witness ==
    /\ N = 1
    /\ last = Panicked("push")
    /\ len = U32_MAX

\* C9: swap, swap_remove and indexing with an index >= len abort and change
\* nothing; no index is clamped.
C9_OutOfBounds ==
    /\ \A a \in Idx \cup {U32_MAX} : \A b \in Idx \cup {U32_MAX} :
          a >= len \/ b >= len => swap(H, a, b).abort /\ swap(H, a, b).h = H
    /\ \A i \in Idx \cup {U32_MAX} :
          i >= len =>
              /\ swap_remove(H, i).abort /\ swap_remove(H, i).h = H
              /\ index(H, i).abort /\ index(H, i).h = H
              /\ \A e \in Values : index_mut(H, i, e).abort /\ index_mut(H, i, e).h = H
    /\ status = "aborted" => len = Len(mv) /\ \A i \in 0 .. cap : View(H, i) = VecGet(mv, i)

\* A swap_remove past the end of a vector of two elements.
C9_Witness ==
    /\ last = Panicked("swap_remove")
    /\ len = 2

\* C10: within one instance the storage is read at most once for a chunk
\* index, and between two flushes it is written at most once for an index.
C10_ReadWriteOnce ==
    /\ \A c \in DOMAIN reads : reads[c] <= 1
    /\ \A c \in DOMAIN writes : writes[c] <= 1

\* A chunk read once after a reload, modified and written once by the flush.
C10_Witness ==
    /\ last = Flushed("flush")
    /\ \E c \in DOMAIN reads : reads[c] = 1 /\ CountAt(writes, c) = 1

\* C11: push, pop, get, get_mut, swap, swap_remove and clear leave the
\* storage as it is; only flush and drop change it, so a vector abandoned
\* without either leaves the storage as the previous flush left it.
C11_OnlyFlushWrites ==
    /\ \A e \in Values : push(H, e).h.medium = medium
    /\ pop(H).h.medium = medium
    /\ clear(H).medium = medium
    /\ \A i \in Idx :
          /\ get(H, i).h.medium = medium
          /\ get_mut(H, i).h.medium = medium
          /\ swap_remove(H, i).h.medium = medium
          /\ \A e \in Values : get_mut_write(H, i, e).h.medium = medium
          /\ \A j \in Idx : swap(H, i, j).h.medium = medium

\* Pending changes in the cache on top of a storage written by an earlier flush.
C11_Witness ==
    /\ last = Returned
    /\ medium # EmptyFn
    /\ ~NoDirty
    /\ flush(H).medium # medium

\* C12: flush may be called any number of times: a second flush right after
\* a flush leaves the storage as the first left it, a flush with nothing dirty
\* leaves the storage unchanged, and flush changes neither len nor any get(i).
C12_FlushIdempotent ==
    /\ flush(flush(H)).medium = flush(H).medium
    /\ NoDirty => flush(H).medium = medium
    /\ flush(H).len = len
    /\ \A i \in 0 .. cap : View(flush(H), i) = View(H, i)
    /\ last = Flushed("flush") => status = "live" /\ flush(H).medium = medium

\* A flush that wrote two elements, with nothing left dirty.
C12_Witness ==
    /\ last = Flushed("flush")
    /\ len = 2
    /\ medium # EmptyFn
    /\ NoDirty

\* C13: after clear, on a vector of any length, len is 0 and get(i) and
\* get_mut(i) are None for every i.
C13_ClearEmpties ==
    LET c == clear(H)
    IN /\ c.len = 0
       /\ \A i \in (0 .. cap + 1) \cup {U32_MAX} :
             IsNone(View(c, i)) /\ IsNone(get_mut(c, i).ret)

\* A clear of two flushed elements.
C13_Witness ==
    /\ status = "live"
    /\ len = 2
    /\ medium # EmptyFn
    /\ clear(H).len = 0
    /\ IsSome(View(H, 1))
    /\ IsNone(View(clear(H), 1))

\* C14: from the same state, clear and len successive pops end with len 0,
\* with no chunk visible in the store and, after a flush, with the same
\* contents of the namespace in the storage.
C14_ClearAsPops ==
    LET a == clear(H)
        b == pop_all(H, len)
    IN /\ ~b.abort
       /\ a.len = 0 /\ b.h.len = 0
       /\ \A c \in (0 .. cap + 1) \cup DOMAIN a.cache \cup DOMAIN b.h.cache :
             ~Present(a, c) /\ ~Present(b.h, c)
       /\ flush(a).medium = flush(b.h).medium

\* Two elements in one chunk, flushed: clear marks more slots than the pops.
C14_Witness ==
    /\ status = "live"
    /\ N = 2
    /\ len = 2
    /\ medium # EmptyFn
    /\ DOMAIN clear(H).cache # DOMAIN pop_all(H, len).h.cache
    /\ flush(clear(H)).medium = EmptyFn

\* Vectors of the same len and namespace as the current one, with other
\* element values and other cache contents.
SameHeader ==
    {flush(H), [H EXCEPT !.cache = EmptyFn]}
        \cup {get_mut_write(H, i, e).h : i \in Idx, e \in Values}
        \cup {swap(H, a, b).h : a \in Idx, b \in Idx}
        \cup {get(flush(H), i).h : i \in Idx}

\* C16: the serialized bytes depend on len and the namespace alone: vectors
\* of equal len and namespace serialize to the same bytes, whatever their
\* elements and their caches hold.
C16_HeaderOnly ==
    \A h \in SameHeader :
        h.len = len /\ h.prefix = prefix => serialize(h) = serialize(H)

\* Two vectors of two elements that differ in an element and in the cache.
C16_Witness ==
    /\ status = "live"
    /\ len = 2
    /\ ~NoDirty
    /\ \E e \in Values :
          /\ View(get_mut_write(H, 0, e).h, 0) # View(H, 0)
          /\ serialize(get_mut_write(H, 0, e).h) = serialize(H)
    /\ flush(H).cache # cache

\* C20 as stated: pop on a vector with len > 0 whose last chunk is absent
\* from the store aborts and leaves len as it was, at chunk position 0 and at
\* a later position; it never returns None.
C20_PopMissingAborts ==
    len > 0 /\ ~Present(H, chunk_index(len - 1)) =>
        pop(H).abort /\ pop(H).h.len = len

\* The sub-ranges of 0 .. len an iterator over the vector can hold.
Ranges == {Range(a, b) : a \in 0 .. len, b \in 0 .. len}

\* C15: get(i) and get_mut(i) are None for every i >= len, also inside the
\* last chunk and at indices vacated by pop or swap_remove, and indexing
\* there panics; what get, get_mut, indexing, pop, swap_remove and the
\* iterators return is never the content of a slot at or above len (the
\* zeroed pattern, all logical elements being non-zero).
C15_DontCareHidden ==
    /\ \A i \in (0 .. (cap + 1) * N) \cup {U32_MAX} :
          i >= len =>
              /\ IsNone(get(H, i).ret)
              /\ IsNone(get_mut(H, i).ret)
              /\ index(H, i).abort
    /\ \A i \in 0 .. len - 1 :
          /\ get(H, i).ret # Some(Zero)
          /\ get_mut(H, i).ret # Some(Zero)
          /\ index(H, i).ret # Some(Zero)
          /\ swap_remove(H, i).ret # Zero
    /\ pop(H).ret # Some(Zero)
    /\ \A r \in Ranges : \A n \in 0 .. cap + 1 :
          /\ Iter_nth(H, r, n).ret # Some(Zero)
          /\ Iter_nth_back(H, r, n).ret # Some(Zero)
          /\ IterMut_nth(H, r, n).ret # Some(Zero)
          /\ IterMut_nth_back(H, r, n).ret # Some(Zero)

\* One element left in a chunk of two whose second slot was flushed with an
\* element and has been vacated since.
C15_Witness ==
    /\ status = "live"
    /\ N = 2
    /\ len = 1
    /\ 0 \in DOMAIN cache /\ IsSome(cache[0].value)
    /\ Unwrap(cache[0].value)[2] = Zero
    /\ index_to_lookup_key(prefix, 0) \in DOMAIN medium
    /\ medium[index_to_lookup_key(prefix, 0)][2] # Zero
    /\ IsNone(get(H, 1).ret)

\* C17: stepped in lockstep by next, next_back, nth(n) and nth_back(n) in any
\* order, the vector's iterator (Iter or IterMut) and the reference Vec's
\* iterator return the same element or None at every step and report the
\* same remaining count after it.
C17_IterLockstep ==
    status = "iterating" =>
        /\ remaining(it.range) = Len(rest)
        /\ Next_.ret = VecIter_nth(rest, 0).ret
        /\ remaining(Next_.range) = Len(VecIter_nth(rest, 0).rest)
        /\ NextBack.ret = VecIter_nth_back(rest, 0).ret
        /\ remaining(NextBack.range) = Len(VecIter_nth_back(rest, 0).rest)
        /\ \A n \in Skips \cup (0 .. cap + 1) :
              /\ ~Nth(n).abort /\ ~NthBack(n).abort
              /\ Nth(n).ret = VecIter_nth(rest, n).ret
              /\ remaining(Nth(n).range) = Len(VecIter_nth(rest, n).rest)
              /\ NthBack(n).ret = VecIter_nth_back(rest, n).ret
              /\ remaining(NthBack(n).range) = Len(VecIter_nth_back(rest, n).rest)

\* An Iter over three elements in chunks of two, stepped from both ends.
C17_Witness ==
    /\ it.kind = "Iter"
    /\ N = 2
    /\ len = 3
    /\ last = <<"some", "nth_back">>
    /\ seen = {0, 2}
    /\ rest = <<2>>

\* C18: over the life of an IterMut, in every order of next, next_back, nth
\* and nth_back, no index is yielded twice: the index the next call reads was
\* never yielded before, and no yielded index is left in the range.
C18_NoIndexTwice ==
    status = "iterating" /\ it.kind = "IterMut" =>
        /\ \A i \in seen : i < it.range.start \/ i >= it.range.end
        /\ \A n \in Skips \cup (0 .. cap + 1) :
              /\ IsSome(IterMut_nth(H, it.range, n).idx) =>
                    Unwrap(IterMut_nth(H, it.range, n).idx) \notin seen
              /\ IsSome(IterMut_nth_back(H, it.range, n).idx) =>
                    Unwrap(IterMut_nth_back(H, it.range, n).idx) \notin seen
              /\ \A m \in 0 .. cap + 1 :
                    LET a == IterMut_nth_back(H, it.range, n)
                        b == IterMut_nth(a.h, a.range, m)
                    IN IsSome(a.idx) /\ IsSome(b.idx) => a.idx # b.idx

\* An IterMut that yielded all three elements, from both ends.
C18_Witness ==
    /\ it.kind = "IterMut"
    /\ len = 3
    /\ seen = {0, 1, 2}
    /\ last = <<"some", "nth_back">>
    /\ remaining(it.range) = 0

\* C19: Iter and IterMut are fused: once a call has returned None the
\* remaining count is 0 and next, next_back, nth and nth_back return None and
\* leave it at 0; nth(n) and nth_back(n) with n >= remaining return None and
\* leave the iterator exhausted.
C19_Fused ==
    status = "iterating" =>
        /\ last[1] = "none" =>
              /\ remaining(it.range) = 0
              /\ IsNone(Next_.ret) /\ remaining(Next_.range) = 0
              /\ IsNone(NextBack.ret) /\ remaining(NextBack.range) = 0
              /\ \A n \in Skips :
                    /\ IsNone(Nth(n).ret) /\ remaining(Nth(n).range) = 0
                    /\ IsNone(NthBack(n).ret) /\ remaining(NthBack(n).range) = 0
        /\ \A n \in Skips \cup (0 .. cap + 1) :
              n >= remaining(it.range) =>
                  /\ IsNone(Nth(n).ret) /\ remaining(Nth(n).range) = 0
                  /\ IsNone(NthBack(n).ret) /\ remaining(NthBack(n).range) = 0

\* An nth that overshot while two of three elements were still to come.
C19_Witness ==
    /\ status = "iterating"
    /\ last = <<"none", "nth">>
    /\ len = 3
    /\ seen = {0}
    /\ remaining(it.range) = 0

\* C21 as stated: clear sets to absent exactly the store slots of the chunk
\* indices 0 .. chunk_index(len - 1) and leaves every slot with a larger
\* index as it was, neither dirty nor removed.
C21_ClearTouchesChunks ==
    LET c == clear(H)
    IN \A k \in (0 .. cap + 1) \cup DOMAIN c.cache :
          IF k * N < len
          THEN k \in DOMAIN c.cache /\ IsNone(c.cache[k].value)
          ELSE IF k \in DOMAIN cache THEN k \in DOMAIN c.cache /\ c.cache[k] = cache[k]
               ELSE k \notin DOMAIN c.cache

\* The chunk indices at which the store reports a chunk.
Chunks(h) == {c \in (0 .. cap + 2) \cup DOMAIN h.cache : Present(h, c)}

\* C22: push creates a chunk exactly when chunk_pos(len) = 0 and pop removes
\* one exactly when chunk_pos(len - 1) = 0; every other push and pop, and
\* every swap, get and get_mut, leaves the set of existing chunk indices as
\* it was.
C22_ChunkLifecycle ==
    /\ \A e \in Values :
          LET r == push(H, e)
          IN /\ ~r.abort
             /\ chunk_index(len) \in Chunks(r.h) \ Chunks(H) <=> chunk_pos(len) = 0
             /\ Chunks(r.h) = Chunks(H) \cup {chunk_index(len)}
    /\ len > 0 =>
          LET r == pop(H)
          IN /\ ~r.abort
             /\ chunk_index(len - 1) \in Chunks(H) \ Chunks(r.h) <=> chunk_pos(len - 1) = 0
             /\ Chunks(r.h) \cup {chunk_index(len - 1)} = Chunks(H)
    /\ len = 0 => Chunks(pop(H).h) = Chunks(H)
    /\ \A i \in Idx :
          /\ Chunks(get(H, i).h) = Chunks(H)
          /\ Chunks(get_mut(H, i).h) = Chunks(H)
          /\ \A e \in Values : Chunks(get_mut_write(H, i, e).h) = Chunks(H)
          /\ \A j \in Idx : Chunks(swap(H, i, j).h) = Chunks(H)

\* Chunks of two, two elements flushed: a push starts chunk 1, a pop keeps
\* chunk 0, and a pop after it removes chunk 0.
C22_Witness ==
    /\ status = "live"
    /\ N = 2
    /\ len = 2
    /\ medium # EmptyFn
    /\ Chunks(H) = {0}
    /\ Chunks(push(H, 1).h) = {0, 1}
    /\ Chunks(pop(H).h) = {0}
    /\ Chunks(pop(pop(H).h).h) = {}

\* A handle with an empty cache on a given storage: one deserialized from a
\* header, or one built from a len and a namespace as in tests::test_debug.
OnStorage(v, m) ==
    [len |-> v.len, prefix |-> v.prefix, cache |-> v.cache, medium |-> m,
     reads |-> EmptyFn, writes |-> EmptyFn]
Built(l, p) == [new(p) EXCEPT !.len = l]
SameAs(w, h) ==
    /\ ChunkedVector_len(w) = ChunkedVector_len(h)
    /\ \A i \in 0 .. cap : View(w, i) = View(h, i)

\* C23: when the original is flushed or dropped after its last mutation and
\* its header was serialized after its last change of len, a vector
\* deserialized from that header, or built with the same len and namespace
\* and an empty cache, that first reads the storage after the flush has the
\* len and every get(i) of the original.
C23_ReloadAfterFlush ==
    /\ SameAs(OnStorage(deserialize(serialize(H)), flush(H).medium), H)
    /\ SameAs(OnStorage(deserialize(serialize(flush(H))), flush(H).medium), H)
    /\ SameAs(OnStorage(deserialize(serialize(H)), drop(H).medium), H)
    /\ SameAs(OnStorage(Built(ChunkedVector_len(H), prefix), flush(H).medium), H)
    /\ \A i \in Idx : \A e \in Values :
          LET h2 == get_mut_write(H, i, e).h
          IN SameAs(OnStorage(deserialize(serialize(H)), flush(h2).medium), h2)
    /\ \A a \in Idx : \A b \in Idx :
          LET h2 == swap(H, a, b).h
          IN SameAs(OnStorage(deserialize(serialize(H)), flush(h2).medium), h2)

\* Two different elements with unflushed changes: the header alone does not
\* give them back, the header with the flushed storage does.
C23_Witness ==
    /\ status = "live"
    /\ len = 2
    /\ mv[1] # mv[2]
    /\ ~NoDirty
    /\ ~SameAs(OnStorage(deserialize(serialize(H)), medium), H)
    /\ View(OnStorage(deserialize(serialize(H)), flush(H).medium), 1) = Some(mv[2])

\* The chunk indices whose cache entry is marked modified.
Dirty(h) == {c \in DOMAIN h.cache : h.cache[c].state = "Modified"}

\* The vectors left by one read: get, read indexing, or a step of an Iter
\* over any sub-range.
AfterRead(h) ==
    {get(h, i).h : i \in Idx} \cup {index(h, i).h : i \in Idx}
        \cup {Iter_nth(h, Range(a, b), n).h : a \in 0 .. h.len, b \in 0 .. h.len, n \in 0 .. 1}
        \cup {Iter_nth_back(h, Range(a, b), n).h : a \in 0 .. h.len, b \in 0 .. h.len, n \in 0 .. 1}

\* C24: len(), is_empty(), get(i), read indexing and Iter mark no chunk as
\* modified; a flush preceded only by such reads since the previous flush
\* writes nothing to the storage.
C24_ReadsStayClean ==
    /\ ChunkedVector_len(H) = len
    /\ is_empty(H) <=> len = 0
    /\ \A h1 \in AfterRead(H) :
          /\ Dirty(h1) = Dirty(H)
          /\ h1.len = len /\ h1.medium = medium
          /\ \A h2 \in AfterRead(h1) :
                /\ Dirty(h2) = Dirty(H)
                /\ NoDirty => flush(h2).medium = medium /\ flush(h2).writes = H.writes

\* A reloaded vector whose chunks the reads fetch from the storage.
C24_Witness ==
    /\ last = Flushed("reset")
    /\ len >= 2
    /\ cache = EmptyFn
    /\ \E h1 \in AfterRead(H) : h1.cache # cache /\ Dirty(h1) = {}

\* Outside the chunk indices S the vector h1 has the cache entries (value
\* and modified flag), the storage and the read counts of the current one.
OnlyTouched(h1, S) ==
    /\ h1.medium = medium
    /\ \A c \in (DOMAIN h1.cache \cup DOMAIN cache \cup DOMAIN h1.reads) \ S :
          /\ c \in DOMAIN cache <=> c \in DOMAIN h1.cache
          /\ c \in DOMAIN cache => h1.cache[c] = cache[c]
          /\ CountAt(h1.reads, c) = CountAt(reads, c)

\* C25: push and pop access only the chunk of the pushed or popped element,
\* swap(a, b) only the chunks of a and b and none when a = b, swap_remove(i)
\* only the chunks of i and of len - 1; every other chunk keeps its cache
\* entry, its modified flag and its stored value.
C25_ChunkLocality ==
    /\ OnlyTouched(push(H, 1).h, {chunk_index(len)})
    /\ OnlyTouched(pop(H).h, IF len = 0 THEN {} ELSE {chunk_index(len - 1)})
    /\ \A a \in Idx : \A b \in Idx :
          OnlyTouched(swap(H, a, b).h,
                      IF a >= len \/ b >= len \/ a = b THEN {}
                      ELSE {chunk_index(a), chunk_index(b)})
    /\ \A i \in Idx :
          OnlyTouched(swap_remove(H, i).h,
                      IF i >= len THEN {} ELSE {chunk_index(i), chunk_index(len - 1)})

\* Three chunks of one element in the storage, none loaded: a swap of the
\* outer two loads and modifies those two alone.
C25_Witness ==
    /\ status = "live"
    /\ N = 1
    /\ len = 3
    /\ cache = EmptyFn
    /\ DOMAIN swap(H, 0, 2).h.cache = {0, 2}
    /\ DOMAIN swap(H, 0, 2).h.reads = {0, 2}
    /\ DOMAIN swap(H, 1, 1).h.cache = {}

\* C26: creating an Iter or IterMut loads no chunk, a call of next,
\* next_back, nth or nth_back loads at most the chunk of the index it yields
\* and none of the chunks it skips, and count and size_hint load nothing.
C26_LazyIteration ==
    [][status' = "iterating" =>
          /\ (DOMAIN cache' \ DOMAIN cache) \subseteq {chunk_index(i) : i \in seen' \ seen}
          /\ medium' = medium
          /\ Iter_count(H, it.range).h = H /\ Iter_size_hint(H, it.range).h = H
          /\ IterMut_count(H, it.range).h = H /\ IterMut_size_hint(H, it.range).h = H]_vars

\* Three chunks of one element, reloaded: nth(2) on a new Iter has loaded
\* the third chunk alone.
C26_Witness ==
    /\ status = "iterating"
    /\ it.kind = "Iter"
    /\ N = 1
    /\ len = 3
    /\ last = <<"some", "nth">>
    /\ seen = {2}
    /\ DOMAIN cache = {2}

\* C27: the range of an Iter or IterMut satisfies 0 <= start <= end <= len,
\* it starts as [0, len), every index a call resolves lies in [start, end)
\* of the range the call began with, and no call panics on a vector whose
\* chunks are all present.
C27_RangeWithinLen ==
    status \in {"iterating", "aborted"} =>
        /\ status # "aborted"
        /\ 0 <= it.range.start /\ it.range.start <= it.range.end /\ it.range.end <= len
        /\ last[1] = "iter" => it.range = Range(0, len)
        /\ \A n \in Skips \cup (0 .. cap + 1) :
              /\ ~Nth(n).abort /\ ~NthBack(n).abort
              /\ IsSome(Nth(n).idx) =>
                    it.range.start <= Unwrap(Nth(n).idx) /\ Unwrap(Nth(n).idx) < it.range.end
              /\ IsSome(NthBack(n).idx) =>
                    it.range.start <= Unwrap(NthBack(n).idx) /\ Unwrap(NthBack(n).idx) < it.range.end

\* An IterMut over three elements narrowed from both ends to the middle one.
C27_Witness ==
    /\ status = "iterating"
    /\ it.kind = "IterMut"
    /\ len = 3
    /\ it.range = Range(1, 2)

====
